---- MODULE Spec2Model ----
(***************************************************************************)
(* Model of the playtime-tracking bot of src/src/main.rs.                  *)
(*                                                                         *)
(* The state is the content of the PostgreSQL database behind Bot.pool:    *)
(* the three tables games, game_entries and game_sessions, and the         *)
(* BIGSERIAL sequence of games.game_id.  Every SQL statement of the source *)
(* is an operator from a database value to a database value; a handler is  *)
(* the composition of its statements.  A statement that fails makes the    *)
(* .unwrap() after it panic, which ends the handler and keeps what the     *)
(* statements before it have committed (no statement runs in an explicit   *)
(* transaction).                                                           *)
(*                                                                         *)
(* Spec, TwoUserSpec and SingleUserSpec run every handler to completion    *)
(* before the next one starts.  TaskSpec runs the handlers of two events   *)
(* at a time, statement by statement, with the tables and the trigger that *)
(* hardreset drops and build_db creates again.                             *)
(***************************************************************************)
EXTENDS Integers, FiniteSets, Sequences, TLC

VARIABLES
    games,          \* table games: rows [game_id, name]
    game_entries,   \* table game_entries: rows [user_id, game_id, playtime]
    game_sessions,  \* table game_sessions: rows [user_id, game_id, starttime]
    games_seq,      \* next value of the sequence behind games.game_id
    last,           \* history: the handler that ran last, its input, its path
    folded,         \* observer: the session rows folded into an entry and still stored
    ledger,         \* observer: per game id, the time of user 1's sessions, each once
    schema,         \* the tables and the trigger that exist in the database
    tasks,          \* the handlers in flight: per task, its input, position and locals
    race            \* observer: two signals of one user that arrived one behind the other

vars == <<games, game_entries, game_sessions, games_seq, last, folded, ledger,
          schema, tasks, race>>

(***************************************************************************)
(* Bounds of the model.                                                    *)
(***************************************************************************)
MaxTime == 1    \* start times and clock readings range over 0..MaxTime
MaxId == 2      \* the sequence hands out game ids 1..MaxId
MaxTotal == 2   \* |playtime| of a stored entry stays within MaxTotal

Users == {1, 2}
Names == {"Chess", "Go"}
Times == 0 .. MaxTime
Ids == 1 .. MaxId

(***************************************************************************)
(* Presence signals: the activities list of a Presence.  Only its length   *)
(* and its first element are read.  NoStart stands for an activity whose   *)
(* timestamps (or timestamps.start) are None; starts are the start times   *)
(* the signals carry.  To keep the model small, user 2 is only ever seen   *)
(* with Chess.                                                             *)
(***************************************************************************)
NoStart == -1
Plays(user_id) == IF user_id = 1 THEN Names ELSE {"Chess"}
Activities(user_id, starts) ==
    [name : Plays(user_id), kind : {"Playing"}, start : starts]
        \cup {[name |-> "Chess", kind |-> "Playing", start |-> NoStart],
              [name |-> "Spotify", kind |-> "Listening", start |-> NoStart]}
Signals(user_id, starts) ==
    {<<>>} \cup {<<a>> : a \in Activities(user_id, starts)}

Playing(name, start) == <<[name |-> name, kind |-> "Playing", start |-> start]>>
NotPlaying == <<>>

(***************************************************************************)
(* The database as one value, so that statements compose.                  *)
(***************************************************************************)
DB == [games |-> games, entries |-> game_entries,
       sessions |-> game_sessions, seq |-> games_seq]

SetDB(db) ==
    /\ games' = db.games
    /\ game_entries' = db.entries
    /\ game_sessions' = db.sessions
    /\ games_seq' = db.seq

StoreVars == <<games, game_entries, game_sessions, games_seq>>

EmptyDB == [games |-> {}, entries |-> {}, sessions |-> {}, seq |-> 1]

\* What build_db creates.  DROP TABLE game_entries takes the trigger with it.
Tables == {"games", "game_entries", "game_sessions"}
Trigger == "trigger_clear_sessions"
FullSchema == Tables \cup {Trigger}

\* The tasks that run handlers; an idle one waits for the next event.
TaskIds == {1, 2}
Idle == [op |-> "idle", input |-> <<>>, pc |-> "idle",
         game_id |-> 0, playtime |-> 0]
NoRace == [db |-> EmptyDB, first |-> <<>>, second |-> <<>>]

(***************************************************************************)
(* SQL statements.  Each returns [db, ok]: the database after the          *)
(* statement and whether it succeeded (a failed statement changes no       *)
(* table; the sequence keeps the value a failed INSERT INTO games drew).   *)
(***************************************************************************)
GameIds(db) == {g.game_id : g \in db.games}

UserSessions(db, u) == {s \in db.sessions : s.user_id = u}

PairSessions(db, u, gid) ==
    {s \in db.sessions : s.user_id = u /\ s.game_id = gid}

PairEntries(db, u, gid) ==
    {e \in db.entries : e.user_id = u /\ e.game_id = gid}

\* SELECT * FROM games WHERE name=$1; fetch_optional, is_some
is_game_in_db(db, game_name) == \E g \in db.games : g.name = game_name

\* INSERT INTO games (name) VALUES ($1); game_id is drawn from the sequence,
\* name is UNIQUE
add_game(db, game_name) ==
    IF \E g \in db.games : g.name = game_name
    THEN [db |-> [db EXCEPT !.seq = @ + 1], ok |-> FALSE]
    ELSE [db |-> [db EXCEPT
                    !.games = @ \cup {[game_id |-> db.seq, name |-> game_name]},
                    !.seq = @ + 1],
          ok |-> TRUE]

\* SELECT game_id FROM games WHERE name=$1; fetch_one
get_game_id(db, game_name) ==
    (CHOOSE g \in db.games : g.name = game_name).game_id

\* The INSERT into game_sessions with no foreign key to games.
InsertSession_no_foreign_key(db, user_id, game_id, starttime) ==
    IF PairSessions(db, user_id, game_id) # {}
    THEN [db |-> db, ok |-> FALSE]
    ELSE [db |-> [db EXCEPT !.sessions = @ \cup
                    {[user_id |-> user_id, game_id |-> game_id,
                      starttime |-> starttime]}],
          ok |-> TRUE]

\* The INSERT into game_sessions with no primary key (user_id, game_id).
InsertSession_no_primary_key(db, user_id, game_id, starttime) ==
    IF game_id \notin GameIds(db)
    THEN [db |-> db, ok |-> FALSE]
    ELSE [db |-> [db EXCEPT !.sessions = @ \cup
                    {[user_id |-> user_id, game_id |-> game_id,
                      starttime |-> starttime]}],
          ok |-> TRUE]

\* INSERT INTO game_sessions (user_id, game_id, starttime) VALUES ($1, $2, $3);
\* PRIMARY KEY (user_id, game_id), FOREIGN KEY (game_id) REFERENCES games
InsertSession(db, user_id, game_id, starttime) ==
    IF PairSessions(db, user_id, game_id) # {} \/ game_id \notin GameIds(db)
    THEN [db |-> db, ok |-> FALSE]
    ELSE [db |-> [db EXCEPT !.sessions = @ \cup
                    {[user_id |-> user_id, game_id |-> game_id,
                      starttime |-> starttime]}],
          ok |-> TRUE]

\* The trigger trigger_clear_sessions, AFTER INSERT ON game_entries FOR EACH
\* ROW: DELETE FROM game_sessions WHERE user_id = NEW.user_id AND
\* game_id = NEW.game_id
remove_session(db, user_id, game_id) ==
    [db EXCEPT !.sessions = @ \ PairSessions(db, user_id, game_id)]

\* INSERT INTO game_entries (user_id, game_id, playtime) VALUES ($1, $2, $3);
\* PRIMARY KEY (user_id, game_id), FOREIGN KEY (game_id) REFERENCES games;
\* the insert fires the trigger
InsertEntry(db, user_id, game_id, playtime) ==
    IF PairEntries(db, user_id, game_id) # {} \/ game_id \notin GameIds(db)
    THEN [db |-> db, ok |-> FALSE]
    ELSE [db |-> remove_session(
                    [db EXCEPT !.entries = @ \cup
                        {[user_id |-> user_id, game_id |-> game_id,
                          playtime |-> playtime]}],
                    user_id, game_id),
          ok |-> TRUE]

\* The same INSERT while the trigger does not exist.
InsertEntryUntriggered(db, user_id, game_id, playtime) ==
    IF PairEntries(db, user_id, game_id) # {} \/ game_id \notin GameIds(db)
    THEN [db |-> db, ok |-> FALSE]
    ELSE [db |-> [db EXCEPT !.entries = @ \cup
                    {[user_id |-> user_id, game_id |-> game_id,
                      playtime |-> playtime]}],
          ok |-> TRUE]

\* UPDATE game_entries SET playtime=playtime+$1 WHERE user_id=$2 AND game_id=$3;
\* an UPDATE fires no trigger
UpdateEntry(db, user_id, game_id, playtime) ==
    [db |-> [db EXCEPT !.entries =
                {IF e.user_id = user_id /\ e.game_id = game_id
                 THEN [e EXCEPT !.playtime = @ + playtime]
                 ELSE e : e \in @}],
     ok |-> TRUE]

(***************************************************************************)
(* Methods of Bot.  Each returns [db, out]: the database when the method   *)
(* returns or panics, and the path taken.                                  *)
(***************************************************************************)
add_playtime(db, user_id, game_id, playtime) ==
    IF PairEntries(db, user_id, game_id) = {}
    THEN LET r == InsertEntry(db, user_id, game_id, playtime)
         IN  [db |-> r.db, out |-> IF r.ok THEN "inserted" ELSE "panic"]
    ELSE LET r == UpdateEntry(db, user_id, game_id, playtime)
         IN  [db |-> r.db, out |-> "updated"]

\* rows is what SELECT game_id, starttime FROM game_sessions WHERE user_id=$1
\* yields; fetch_optional hands back one of them (row), in no stated order.
save_session(db, user_id, row, currenttime) ==
    IF UserSessions(db, user_id) = {}
    THEN [db |-> db, out |-> "no_session"]
    ELSE add_playtime(db, user_id, row.game_id, currenttime - row.starttime)

register_session(db, user_id, game_name, starttime) ==
    LET a == IF ~is_game_in_db(db, game_name)
             THEN add_game(db, game_name)
             ELSE [db |-> db, ok |-> TRUE]
    IN  IF ~a.ok \/ ~is_game_in_db(a.db, game_name)
        THEN [db |-> a.db, out |-> "panic"]
        ELSE LET r == InsertSession(a.db, user_id,
                                    get_game_id(a.db, game_name), starttime)
             IN  [db |-> r.db,
                  out |-> IF r.ok THEN "registered" ELSE "conflict"]

\* DELETE FROM game_entries;
DeleteAllEntries(db) == [db EXCEPT !.entries = {}]

\* DELETE FROM game_sessions;
DeleteAllSessions(db) == [db EXCEPT !.sessions = {}]

\* DELETE FROM games; a row still referenced by an entry or a session makes
\* the statement fail (FOREIGN KEY ... REFERENCES games)
DeleteAllGames(db) ==
    IF \E r \in db.entries \cup db.sessions : r.game_id \in GameIds(db)
    THEN [db |-> db, ok |-> FALSE]
    ELSE [db |-> [db EXCEPT !.games = {}], ok |-> TRUE]

\* resetall without its third statement.
resetall_keeps_games(db) ==
    [db |-> DeleteAllSessions(DeleteAllEntries(db)), out |-> "done"]

resetall(db) ==
    LET r == DeleteAllGames(DeleteAllSessions(DeleteAllEntries(db)))
    IN  [db |-> r.db, out |-> IF r.ok THEN "done" ELSE "panic"]

\* reset with the WHERE user_id=$1 of both statements left out.
reset_everyone(db, user_id) ==
    [db |-> DeleteAllSessions(DeleteAllEntries(db)), out |-> "done"]

reset(db, user_id) ==
    LET d1 == [db EXCEPT !.entries = {e \in @ : e.user_id # user_id}]
        d2 == [d1 EXCEPT !.sessions = {x \in @ : x.user_id # user_id}]
    IN  [db |-> d2, out |-> "done"]

\* The tables exist: the three CREATE TABLE IF NOT EXISTS do nothing, the
\* DELETE empties game_sessions, function and trigger are replaced by
\* themselves.
build_db(db) == [db |-> DeleteAllSessions(db), out |-> "done"]

\* resetall, then DROP TABLE of the three tables (the sequence owned by
\* games.game_id goes with its table), then build_db creates them anew.
hardreset(db) ==
    LET r == resetall(db)
    IN  IF r.out = "panic" THEN r ELSE build_db(EmptyDB)

(***************************************************************************)
(* get_summary.  The query joins game_entries with games on game_id, keeps *)
(* the rows of one user, sorts them by playtime, greatest first, and       *)
(* hands back the first SummaryLimit: rows of equal playtime come in an    *)
(* order the statement does not state, so summary_query is the set of the  *)
(* sequences that fetch_all may return.  get_summary turns each row into a *)
(* field of the embed: the name, and the playtime formatted with "%X" as   *)
(* the time of day of 1337-01-01 00:00:00 plus playtime seconds.           *)
(***************************************************************************)
SummaryLimit == 10
SecondsPerDay == 86400

format_X(playtime) == playtime % SecondsPerDay

SummaryRows(db, user_id) ==
    {[name |-> p[2].name, playtime |-> p[1].playtime] :
        p \in {q \in db.entries \X db.games :
                 q[1].user_id = user_id /\ q[1].game_id = q[2].game_id}}

summary_query(db, user_id) ==
    LET rows == SummaryRows(db, user_id)
        n == IF Cardinality(rows) < SummaryLimit
             THEN Cardinality(rows) ELSE SummaryLimit
    IN  {s \in [1 .. n -> rows] :
            /\ \A i, j \in 1 .. n :
                  i < j => s[i] # s[j] /\ s[i].playtime >= s[j].playtime
            /\ \A r \in rows \ {s[i] : i \in 1 .. n} :
                  \A i \in 1 .. n : s[i].playtime >= r.playtime}

get_summary(rows) ==
    [i \in 1 .. Len(rows) |->
        [name |-> rows[i].name, value |-> format_X(rows[i].playtime)]]

(***************************************************************************)
(* Handlers.  currenttime is the reading of SystemTime::now() that         *)
(* save_session takes once it holds a row: an input, unrelated to the      *)
(* start times, which come from the presence signal.  is_admin is the      *)
(* outcome of the comparison of the caller's id with the id the source     *)
(* allows.  Handled ends a handler: it stores the database the handler     *)
(* leaves (within the bounds of the model) and records the handler.        *)
(***************************************************************************)
TotalsInBound(db) ==
    \A e \in db.entries : e.playtime \in (0 - MaxTotal) .. MaxTotal

Handled(op, input, r) ==
    /\ r.db.seq <= MaxId + 1
    /\ TotalsInBound(r.db)
    /\ SetDB(r.db)
    /\ last' = [op |-> op, input |-> input, out |-> r.out]
    /\ UNCHANGED <<schema, tasks>>

\* The branch of presence_update for an empty activities list, taken for a
\* user with a stored session: save_session with the row that fetch_optional
\* hands back and the clock reading it takes.
presence_stop(user_id, row, currenttime) ==
    /\ row \in UserSessions(DB, user_id)
    /\ Handled("presence_update", <<user_id, <<>>>>,
               save_session(DB, user_id, row, currenttime))

\* presence_update calling save_session before register_session as well.
presence_update_close_first(user_id, activities) ==
    LET done(r) == Handled("presence_update", <<user_id, activities>>, r)
    IN  IF Len(activities) = 0
        THEN IF UserSessions(DB, user_id) = {}
             THEN done([db |-> DB, out |-> "no_session"])
             ELSE \E row \in UserSessions(DB, user_id), currenttime \in Times :
                    presence_stop(user_id, row, currenttime)
        ELSE LET user_activity == activities[1]
             IN  IF user_activity.kind = "Playing"
                 THEN IF user_activity.start = NoStart
                      THEN done([db |-> DB, out |-> "no_timestamp"])
                      ELSE IF UserSessions(DB, user_id) = {}
                      THEN done(register_session(DB, user_id,
                                                 user_activity.name,
                                                 user_activity.start))
                      ELSE \E row \in UserSessions(DB, user_id),
                              currenttime \in Times :
                             done(register_session(
                                    save_session(DB, user_id, row,
                                                 currenttime).db,
                                    user_id, user_activity.name,
                                    user_activity.start))
                 ELSE done([db |-> DB, out |-> "ignored"])

\* presence_update taking a first activity that is not Playing for the end
\* of the user's session.
presence_update_close_on_other(user_id, activities) ==
    LET done(r) == Handled("presence_update", <<user_id, activities>>, r)
    IN  IF Len(activities) = 0
        THEN IF UserSessions(DB, user_id) = {}
             THEN done([db |-> DB, out |-> "no_session"])
             ELSE \E row \in UserSessions(DB, user_id), currenttime \in Times :
                    presence_stop(user_id, row, currenttime)
        ELSE LET user_activity == activities[1]
             IN  IF user_activity.kind = "Playing"
                 THEN IF user_activity.start = NoStart
                      THEN done([db |-> DB, out |-> "no_timestamp"])
                      ELSE done(register_session(DB, user_id,
                                                 user_activity.name,
                                                 user_activity.start))
                 ELSE IF UserSessions(DB, user_id) = {}
                 THEN done([db |-> DB, out |-> "ignored"])
                 ELSE \E row \in UserSessions(DB, user_id),
                         currenttime \in Times :
                        done([db |-> save_session(DB, user_id, row,
                                                  currenttime).db,
                              out |-> "ignored"])

presence_update(user_id, activities) ==
    LET done(r) == Handled("presence_update", <<user_id, activities>>, r)
    IN  IF Len(activities) = 0
        THEN IF UserSessions(DB, user_id) = {}
             THEN done([db |-> DB, out |-> "no_session"])
             ELSE \E row \in UserSessions(DB, user_id), currenttime \in Times :
                    presence_stop(user_id, row, currenttime)
        ELSE LET user_activity == activities[1]
             IN  IF user_activity.kind = "Playing"
                 THEN IF user_activity.start = NoStart
                      THEN done([db |-> DB, out |-> "no_timestamp"])
                      ELSE done(register_session(DB, user_id,
                                                 user_activity.name,
                                                 user_activity.start))
                 ELSE done([db |-> DB, out |-> "ignored"])

interaction_reset(is_admin, user_id) ==
    IF is_admin
    THEN Handled("reset", <<user_id>>, reset(DB, user_id))
    ELSE Handled("reset", <<user_id>>, [db |-> DB, out |-> "denied"])

interaction_resetall(is_admin) ==
    IF is_admin
    THEN Handled("resetall", <<>>, resetall(DB))
    ELSE Handled("resetall", <<>>, [db |-> DB, out |-> "denied"])

interaction_hardreset(is_admin) ==
    IF is_admin
    THEN Handled("hardreset", <<>>, hardreset(DB))
    ELSE Handled("hardreset", <<>>, [db |-> DB, out |-> "denied"])

ready == Handled("ready", <<>>, build_db(DB))

\* The summarize command: rows is what the query of get_summary hands back;
\* the embed goes into the response, no table is written.
interaction_summarize(user_id) ==
    \E rows \in summary_query(DB, user_id) :
        /\ SetDB(DB)
        /\ last' = [op |-> "summarize", input |-> <<user_id>>, out |-> "shown",
                    rows |-> rows, embed |-> get_summary(rows)]
        /\ UNCHANGED <<schema, tasks>>

(***************************************************************************)
(* Observer of the sessions of user 1, used by the single-user             *)
(* specification only.  When "not playing" folds a session row into an     *)
(* entry, the session's elapsed time (clock reading - starttime) is added  *)
(* to ledger once per session row: a row that is folded and stays stored   *)
(* is remembered in folded and not added again.                            *)
(***************************************************************************)
TrackClose(row, currenttime) ==
    LET credit == [ledger EXCEPT
                     ![row.game_id] = @ + currenttime - row.starttime]
    IN  /\ \A g \in Ids : credit[g] \in (0 - MaxTotal) .. MaxTotal
        /\ ledger' = IF row \in folded THEN ledger ELSE credit
        /\ folded' = (folded \cup {row}) \cap game_sessions'
        /\ UNCHANGED race

Untracked == UNCHANGED <<folded, ledger, race>>

Init ==
    /\ games = EmptyDB.games
    /\ game_entries = EmptyDB.entries
    /\ game_sessions = EmptyDB.sessions
    /\ games_seq = EmptyDB.seq
    /\ last = [op |-> "ready", input |-> <<>>, out |-> "done"]
    /\ folded = {}
    /\ ledger = [g \in Ids |-> 0]
    /\ schema = FullSchema
    /\ tasks = [t \in TaskIds |-> Idle]
    /\ race = NoRace

PresenceUpdate(U, starts) ==
    \E u \in U : \E sig \in Signals(u, starts) :
        presence_update(u, sig) /\ Untracked

ResetCommand(U) ==
    \E a \in BOOLEAN, u \in U : interaction_reset(a, u) /\ Untracked

ResetAllCommand == \E a \in BOOLEAN : interaction_resetall(a) /\ Untracked

HardResetCommand == \E a \in BOOLEAN : interaction_hardreset(a) /\ Untracked

Ready == ready /\ Untracked

SummarizeCommand(U) == \E u \in U : interaction_summarize(u) /\ Untracked

(***************************************************************************)
(* Spec: every handler, each run to completion before the next, with the   *)
(* events of user 1.  TwoUserSpec: the same with the events of both users, *)
(* every session starting at 0.                                            *)
(***************************************************************************)
Next ==
    \/ PresenceUpdate({1}, Times)
    \/ ResetCommand({1})
    \/ ResetAllCommand
    \/ HardResetCommand
    \/ Ready
    \/ SummarizeCommand({1})

Spec == Init /\ [][Next]_vars

TwoUserNext ==
    \/ PresenceUpdate(Users, {0})
    \/ ResetCommand(Users)
    \/ ResetAllCommand
    \/ HardResetCommand
    \/ Ready
    \/ SummarizeCommand(Users)

TwoUserSpec == Init /\ [][TwoUserNext]_vars

(***************************************************************************)
(* SingleUserSpec: no admin command, user 1 alone, well-formed presence    *)
(* signals only ("not playing", or "playing name since start"), each       *)
(* handled to completion before the next, with the observer following.     *)
(***************************************************************************)
PlayingSignals == {Playing(n, t) : n \in Names, t \in Times}

TrackedPlaying ==
    \E sig \in PlayingSignals : presence_update(1, sig) /\ Untracked

TrackedNotPlaying ==
    IF UserSessions(DB, 1) = {}
    THEN presence_update(1, NotPlaying) /\ Untracked
    ELSE \E row \in UserSessions(DB, 1), now \in Times :
            presence_stop(1, row, now) /\ TrackClose(row, now)

SingleUserNext == TrackedPlaying \/ TrackedNotPlaying

SingleUserSpec == Init /\ [][SingleUserNext]_vars

(***************************************************************************)
(* Handlers in flight.  The client hands every event to a task of its own, *)
(* and a handler gives way at every .await, that is at every SQL           *)
(* statement: the statements of the handlers in flight interleave, each    *)
(* one atomic and committed on its own.  A task holds the handler's input, *)
(* the statement it runs next (pc) and the locals it has read.  A          *)
(* statement on a table that does not exist fails.  Continue moves a task  *)
(* to its next statement, Return ends its handler.                         *)
(***************************************************************************)
Continue(t, db, sch, pc, game_id, playtime) ==
    /\ db.seq <= MaxId + 1
    /\ TotalsInBound(db)
    /\ SetDB(db)
    /\ schema' = sch
    /\ tasks' = [tasks EXCEPT ![t] = [@ EXCEPT !.pc = pc, !.game_id = game_id,
                                               !.playtime = playtime]]
    /\ UNCHANGED last

Return(t, db, sch, out) ==
    /\ db.seq <= MaxId + 1
    /\ TotalsInBound(db)
    /\ SetDB(db)
    /\ schema' = sch
    /\ tasks' = [tasks EXCEPT ![t] = Idle]
    /\ last' = [op |-> tasks[t].op, input |-> tasks[t].input, out |-> out]

\* save_session up to the call of add_playtime: the SELECT, and the clock
\* reading taken once a row is there.
save_session_step(t) ==
    LET user_id == tasks[t].input[1]
    IN  /\ tasks[t].pc = "save_session"
        /\ IF "game_sessions" \notin schema
           THEN Return(t, DB, schema, "panic")
           ELSE IF UserSessions(DB, user_id) = {}
           THEN Return(t, DB, schema, "no_session")
           ELSE \E row \in UserSessions(DB, user_id), currenttime \in Times :
                  Continue(t, DB, schema, "add_playtime", row.game_id,
                           currenttime - row.starttime)

\* add_playtime: the SELECT, then the INSERT or the UPDATE it decided on.
add_playtime_step(t) ==
    LET user_id == tasks[t].input[1]
        game_id == tasks[t].game_id
        playtime == tasks[t].playtime
    IN  /\ tasks[t].pc \in {"add_playtime", "insert_entry", "update_entry"}
        /\ IF "game_entries" \notin schema
           THEN Return(t, DB, schema, "panic")
           ELSE IF tasks[t].pc = "add_playtime"
           THEN Continue(t, DB, schema,
                         IF PairEntries(DB, user_id, game_id) = {}
                         THEN "insert_entry" ELSE "update_entry",
                         game_id, playtime)
           ELSE IF tasks[t].pc = "insert_entry"
           THEN LET r == IF Trigger \in schema
                         THEN InsertEntry(DB, user_id, game_id, playtime)
                         ELSE InsertEntryUntriggered(DB, user_id, game_id,
                                                     playtime)
                IN  Return(t, r.db, schema,
                           IF r.ok THEN "inserted" ELSE "panic")
           ELSE Return(t, UpdateEntry(DB, user_id, game_id, playtime).db,
                       schema, "updated")

\* register_session: is_game_in_db, add_game, get_game_id, the INSERT.
register_session_step(t) ==
    LET user_id == tasks[t].input[1]
        user_activity == tasks[t].input[2][1]
        game_name == user_activity.name
    IN  /\ tasks[t].pc \in {"register_session", "add_game", "get_game_id",
                            "insert_session"}
        /\ IF tasks[t].pc = "register_session"
           THEN IF "games" \notin schema
                THEN Return(t, DB, schema, "panic")
                ELSE Continue(t, DB, schema,
                              IF is_game_in_db(DB, game_name)
                              THEN "get_game_id" ELSE "add_game", 0, 0)
           ELSE IF tasks[t].pc = "add_game"
           THEN IF "games" \notin schema
                THEN Return(t, DB, schema, "panic")
                ELSE LET r == add_game(DB, game_name)
                     IN  IF r.ok
                         THEN Continue(t, r.db, schema, "get_game_id", 0, 0)
                         ELSE Return(t, r.db, schema, "panic")
           ELSE IF tasks[t].pc = "get_game_id"
           THEN IF "games" \notin schema \/ ~is_game_in_db(DB, game_name)
                THEN Return(t, DB, schema, "panic")
                ELSE Continue(t, DB, schema, "insert_session",
                              get_game_id(DB, game_name), 0)
           ELSE IF "game_sessions" \notin schema
                THEN Return(t, DB, schema, "panic")
                ELSE LET r == InsertSession(DB, user_id, tasks[t].game_id,
                                            user_activity.start)
                     IN  Return(t, r.db, schema,
                                IF r.ok THEN "registered" ELSE "conflict")

\* The three DELETEs of resetall, run by resetall and by hardreset.
resetall_step(t) ==
    /\ tasks[t].pc \in {"delete_entries", "delete_sessions", "delete_games"}
    /\ IF tasks[t].pc = "delete_entries"
       THEN IF "game_entries" \notin schema
            THEN Return(t, DB, schema, "panic")
            ELSE Continue(t, DeleteAllEntries(DB), schema, "delete_sessions",
                          0, 0)
       ELSE IF tasks[t].pc = "delete_sessions"
       THEN IF "game_sessions" \notin schema
            THEN Return(t, DB, schema, "panic")
            ELSE Continue(t, DeleteAllSessions(DB), schema, "delete_games",
                          0, 0)
       ELSE LET r == DeleteAllGames(DB)
            IN  IF "games" \notin schema \/ ~r.ok
                THEN Return(t, DB, schema, "panic")
                ELSE IF tasks[t].op = "resetall"
                THEN Return(t, r.db, schema, "done")
                ELSE Continue(t, r.db, schema, "drop_entries", 0, 0)

\* The three DROP TABLEs of hardreset.  Dropping game_entries drops its
\* trigger; games cannot be dropped while a table references it; the
\* sequence of games.game_id goes with games.
hardreset_step(t) ==
    /\ tasks[t].pc \in {"drop_entries", "drop_sessions", "drop_games"}
    /\ IF tasks[t].pc = "drop_entries"
       THEN IF "game_entries" \notin schema
            THEN Return(t, DB, schema, "panic")
            ELSE Continue(t, DeleteAllEntries(DB),
                          schema \ {"game_entries", Trigger},
                          "drop_sessions", 0, 0)
       ELSE IF tasks[t].pc = "drop_sessions"
       THEN IF "game_sessions" \notin schema
            THEN Return(t, DB, schema, "panic")
            ELSE Continue(t, DeleteAllSessions(DB),
                          schema \ {"game_sessions"}, "drop_games", 0, 0)
       ELSE IF schema \cap Tables # {"games"}
            THEN Return(t, DB, schema, "panic")
            ELSE Continue(t, [DB EXCEPT !.games = {}, !.seq = EmptyDB.seq],
                          schema \ {"games"}, "create_games", 0, 0)

\* The six statements of build_db, run by hardreset.
build_db_step(t) ==
    /\ tasks[t].pc \in {"create_games", "create_entries", "create_sessions",
                        "clear_sessions", "create_function", "create_trigger"}
    /\ IF tasks[t].pc = "create_games"
       THEN Continue(t, DB, schema \cup {"games"}, "create_entries", 0, 0)
       ELSE IF tasks[t].pc = "create_entries"
       THEN IF "game_entries" \notin schema /\ "games" \notin schema
            THEN Return(t, DB, schema, "panic")
            ELSE Continue(t, DB, schema \cup {"game_entries"},
                          "create_sessions", 0, 0)
       ELSE IF tasks[t].pc = "create_sessions"
       THEN IF "game_sessions" \notin schema /\ "games" \notin schema
            THEN Return(t, DB, schema, "panic")
            ELSE Continue(t, DB, schema \cup {"game_sessions"},
                          "clear_sessions", 0, 0)
       ELSE IF tasks[t].pc = "clear_sessions"
       THEN IF "game_sessions" \notin schema
            THEN Return(t, DB, schema, "panic")
            ELSE Continue(t, DeleteAllSessions(DB), schema,
                          "create_function", 0, 0)
       ELSE IF tasks[t].pc = "create_function"
       THEN Continue(t, DB, schema, "create_trigger", 0, 0)
       ELSE IF "game_entries" \notin schema
            THEN Return(t, DB, schema, "panic")
            ELSE Return(t, DB, schema \cup {Trigger}, "done")

\* An event arrives and is handed to a task that is free (the first one).
\* A handler that returns before its first statement is over at once.
FreeTask(t) ==
    /\ tasks[t] = Idle
    /\ \A x \in TaskIds : x < t => tasks[x] # Idle

Start(t, op, input, pc) ==
    /\ tasks' = [tasks EXCEPT ![t] = [Idle EXCEPT !.op = op, !.input = input,
                                                  !.pc = pc]]
    /\ UNCHANGED <<StoreVars, schema, last>>

\* race remembers two signals of one user of which the second arrives when
\* no statement of the first has run yet, and the database they arrive at.
Arrival(t, user_id, activities) ==
    IF \E o \in TaskIds \ {t} :
          /\ tasks[o].pc \in {"save_session", "register_session"}
          /\ tasks[o].input[1] = user_id
    THEN LET o == CHOOSE o \in TaskIds \ {t} :
                     /\ tasks[o].pc \in {"save_session", "register_session"}
                     /\ tasks[o].input[1] = user_id
         IN  [db |-> DB, first |-> tasks[o].input,
              second |-> <<user_id, activities>>]
    ELSE NoRace

presence_update_start(t, user_id, activities) ==
    /\ FreeTask(t)
    /\ IF Len(activities) = 0
       THEN Start(t, "presence_update", <<user_id, activities>>,
                  "save_session")
       ELSE IF activities[1].kind = "Playing" /\ activities[1].start # NoStart
       THEN Start(t, "presence_update", <<user_id, activities>>,
                  "register_session")
       ELSE /\ last' = [op |-> "presence_update",
                        input |-> <<user_id, activities>>,
                        out |-> IF activities[1].kind = "Playing"
                                THEN "no_timestamp" ELSE "ignored"]
            /\ UNCHANGED <<StoreVars, schema, tasks>>

interaction_start(t, op) ==
    /\ FreeTask(t)
    /\ Start(t, op, <<>>, "delete_entries")

PresenceArrives(U, signals) ==
    \E t \in TaskIds, u \in U, sig \in signals :
        /\ presence_update_start(t, u, sig)
        /\ race' = IF tasks'[t] = Idle THEN race ELSE Arrival(t, u, sig)
        /\ UNCHANGED <<folded, ledger>>

CommandArrives ==
    \E t \in TaskIds, op \in {"resetall", "hardreset"} :
        /\ \A o \in TaskIds : tasks[o].op \notin {"resetall", "hardreset"}
        /\ interaction_start(t, op)
        /\ race' = NoRace
        /\ UNCHANGED <<folded, ledger>>

SaveSessionStep == \E t \in TaskIds : save_session_step(t) /\ Untracked
AddPlaytimeStep == \E t \in TaskIds : add_playtime_step(t) /\ Untracked
RegisterSessionStep ==
    \E t \in TaskIds : register_session_step(t) /\ Untracked
ResetAllStep == \E t \in TaskIds : resetall_step(t) /\ Untracked
HardResetStep == \E t \in TaskIds : hardreset_step(t) /\ Untracked
BuildDbStep == \E t \in TaskIds : build_db_step(t) /\ Untracked

(***************************************************************************)
(* TaskSpec: the signals "not playing" and "playing Chess since 0" of user  *)
(* 1 and the commands resetall and hardreset of the admin, handled by two  *)
(* tasks statement by statement.  The admin sends a command when no        *)
(* command is in flight.                                                   *)
(***************************************************************************)
TaskSignals == {NotPlaying, Playing("Chess", 0)}

TaskNext ==
    \/ PresenceArrives({1}, TaskSignals)
    \/ CommandArrives
    \/ SaveSessionStep
    \/ AddPlaytimeStep
    \/ RegisterSessionStep
    \/ ResetAllStep
    \/ HardResetStep
    \/ BuildDbStep

TaskSpec == Init /\ [][TaskNext]_vars

(***************************************************************************)
(* Vocabulary of the claims.                                               *)
(***************************************************************************)
\* The playtime recorded for a user and a game id; 0 when there is no row.
TotalOfId(entries, u, gid) ==
    LET rows == {e \in entries : e.user_id = u /\ e.game_id = gid}
    IN  IF rows = {} THEN 0 ELSE (CHOOSE e \in rows : TRUE).playtime

HasEntry(entries, u, gid) ==
    \E e \in entries : e.user_id = u /\ e.game_id = gid

\* C1: for every sequence of presence signals of a single user, the recorded
\* total of each activity equals the sum of the elapsed durations of the
\* user's sessions for that activity, each session counted once.
C1_TotalsEqualLiveIntervals ==
    \A g \in Ids : TotalOfId(game_entries, 1, g) = ledger[g]

\* C2: in every reachable state each user has zero or one live session row.
C2_AtMostOneLiveSession ==
    \A u \in Users : Cardinality(UserSessions(DB, u)) <= 1

\* C3: whenever a session's duration is folded into an entry, that session
\* row no longer exists afterwards (no accumulator update without the
\* matching session removal).
C3_FoldRemovesSession ==
    [][\A u \in Users, t \in Times : \A row \in UserSessions(DB, u) :
          presence_stop(u, row, t) => row \notin game_sessions']_vars

\* C4: "not playing" observed at t for a user whose live session is (X, T)
\* creates the entry (user, X) with t - T or increases it by exactly t - T,
\* and the user has no live session afterwards; for the first and for every
\* later session of the pair.
C4_StopFoldsAndIdles ==
    [][\A u \in Users, t \in Times : \A row \in UserSessions(DB, u) :
          (UserSessions(DB, u) = {row} /\ presence_stop(u, row, t))
          => /\ HasEntry(game_entries', u, row.game_id)
             /\ TotalOfId(game_entries', u, row.game_id)
                  = TotalOfId(game_entries, u, row.game_id) + t - row.starttime
             /\ UserSessions(DB', u) = {}]_vars

\* C5: "playing X since T" for a user who already has the session (X, T)
\* changes nothing in the store: the session table, the entries, the games
\* and the id sequence are as before.
C5_DuplicatePlayingIsIdempotent ==
    [][\A u \in Users : \A row \in UserSessions(DB, u) :
          \A g \in games :
            (g.game_id = row.game_id
                /\ presence_update(u, Playing(g.name, row.starttime)))
            => UNCHANGED StoreVars]_vars

\* The last handler was a "playing X since T" that met the stored session
\* (X, T) of its user.
C5_Witness ==
    /\ last.op = "presence_update"
    /\ last.out = "conflict"
    /\ \E row \in game_sessions, g \in games :
          /\ g.game_id = row.game_id
          /\ last.input = <<row.user_id, Playing(g.name, row.starttime)>>

\* C6: "playing Y since T2" for a user whose live session is (X, T), Y # X,
\* folds t - T into the entry (user, X), t being a clock reading, and
\* afterwards the user's only live session is (Y, T2).
C6_SwitchClosesAndOpens ==
    [][\A u \in Users : \A row \in UserSessions(DB, u) :
          \A name \in Names, T2 \in Times :
            (/\ UserSessions(DB, u) = {row}
             /\ \A g \in games : g.name = name => g.game_id # row.game_id
             /\ presence_update(u, Playing(name, T2)))
            => /\ \E t \in Times :
                    TotalOfId(game_entries', u, row.game_id)
                      = TotalOfId(game_entries, u, row.game_id)
                          + t - row.starttime
               /\ \E g \in games' :
                    /\ g.name = name
                    /\ UserSessions(DB', u)
                         = {[user_id |-> u, game_id |-> g.game_id,
                             starttime |-> T2]}]_vars

\* C7: closing a session whose stored start time is later than the clock
\* reading of the close does not lower the total of its entry and does not
\* leave it negative.
C7_FutureStartClampedToZero ==
    [][\A u \in Users, t \in Times : \A row \in UserSessions(DB, u) :
          (row.starttime > t /\ presence_stop(u, row, t))
          => /\ TotalOfId(game_entries', u, row.game_id)
                  >= TotalOfId(game_entries, u, row.game_id)
             /\ TotalOfId(game_entries', u, row.game_id) >= 0]_vars

\* C8: the playtime of every entry is >= 0, and no step other than an admin
\* reset (reset, resetall, hardreset) lowers the playtime of an entry.
C8_TotalsNonNegativeAndMonotone ==
    [][/\ \A e \in game_entries' : e.playtime >= 0
       /\ last'.op \notin {"reset", "resetall", "hardreset"}
            => \A e \in game_entries :
                 /\ HasEntry(game_entries', e.user_id, e.game_id)
                 /\ TotalOfId(game_entries', e.user_id, e.game_id)
                      >= e.playtime]_vars

C10_ResetUserFrame ==
    [][\A u \in Users :
          interaction_reset(TRUE, u)
          => /\ {x \in game_sessions' : x.user_id = u} = {}
             /\ {e \in game_entries' : e.user_id = u} = {}
             /\ {x \in game_sessions' : x.user_id # u}
                  = {x \in game_sessions : x.user_id # u}
             /\ {e \in game_entries' : e.user_id # u}
                  = {e \in game_entries : e.user_id # u}
             /\ games' = games
             /\ games_seq' = games_seq]_vars

\* reset has just run for one user while another user has a session and an
\* entry, which are still stored.
C10_Witness ==
    /\ last.op = "reset"
    /\ last.out = "done"
    /\ \E v \in Users :
          /\ v # last.input[1]
          /\ \E x \in game_sessions : x.user_id = v
          /\ \E e \in game_entries : e.user_id = v /\ e.playtime # 0

\* The alphabetical rank of a game name.
NameRank(name) == IF name = "Chess" THEN 1 ELSE 2

\* C11: what get_summary shows for a user has at most SummaryLimit rows,
\* every one of them an entry of that user, by playtime descending, rows of
\* equal playtime by name ascending (so that the stored entries determine
\* the sequence shown).
C11_SummaryOrderedByTotalThenName ==
    last.op = "summarize"
    => LET s == last.rows
       IN  /\ Len(s) <= SummaryLimit
           /\ \A i \in 1 .. Len(s) : s[i] \in SummaryRows(DB, last.input[1])
           /\ \A i, j \in 1 .. Len(s) :
                 i < j => \/ s[i].playtime > s[j].playtime
                          \/ /\ s[i].playtime = s[j].playtime
                             /\ NameRank(s[i].name) < NameRank(s[j].name)

\* C12: in the state in which a resetall handler ends, get_summary shows no
\* row for any user, whatever presence handling ran between its statements.
C12_SummaryEmptyAfterResetAll ==
    [][\A t \in TaskIds :
          (tasks[t].op = "resetall" /\ tasks'[t] = Idle)
          => \A u \in Users : summary_query(DB', u) = {<<>>}]_vars

\* The databases that presence_update, run to completion on db, may leave.
presence_outcomes(db, user_id, activities) ==
    IF Len(activities) = 0
    THEN IF UserSessions(db, user_id) = {}
         THEN {db}
         ELSE {save_session(db, user_id, row, currenttime).db :
                 row \in UserSessions(db, user_id), currenttime \in Times}
    ELSE IF activities[1].kind = "Playing" /\ activities[1].start # NoStart
         THEN {register_session(db, user_id, activities[1].name,
                                activities[1].start).db}
         ELSE {db}

\* The databases left by the handler of first run to completion on db and
\* the handler of second run to completion after it.
InArrivalOrder(db, first, second) ==
    UNION {presence_outcomes(d, second[1], second[2]) :
             d \in presence_outcomes(db, first[1], first[2])}

BothHandled == race # NoRace /\ \A t \in TaskIds : tasks[t] = Idle

\* C13: when two signals of one user have arrived one behind the other and
\* both handlers have ended, the database is one that handling the first
\* signal to completion and then the second leaves, however the statements
\* of the two handlers interleaved.
C13_SameUserSignalsInArrivalOrder ==
    BothHandled => DB \in InArrivalOrder(race.db, race.first, race.second)

\* C14: when two "not playing" signals of a user with one stored session
\* have been handled concurrently, the entry of the session's pair has
\* grown by the time of that session once, or not at all.
C14_ConcurrentCloseAddsOnce ==
    (/\ BothHandled
     /\ race.first[2] = NotPlaying
     /\ race.second[2] = NotPlaying
     /\ Cardinality(UserSessions(race.db, race.first[1])) = 1)
    => \A row \in UserSessions(race.db, race.first[1]) :
          LET before == TotalOfId(race.db.entries, row.user_id, row.game_id)
              after == TotalOfId(game_entries, row.user_id, row.game_id)
          IN  \/ after = before
              \/ \E t \in Times : after = before + t - row.starttime

\* C15: a restart (the ready handler running again) keeps every stored
\* session, so that a later stop can close it against its stored start.
C15_SessionSurvivesRestart ==
    [][ready => game_sessions' = game_sessions]_vars

\* C19: a step that inserts the entry of a pair leaves no session of that
\* pair stored.
C19_EntryInsertRemovesSession ==
    [][\A u \in Users, g \in Ids :
          (~HasEntry(game_entries, u, g) /\ HasEntry(game_entries', u, g))
          => PairSessions(DB', u, g) = {}]_vars

\* C16: no two games have the same name, and a handler whose INSERT INTO
\* games meets a game of that name (another handler inserted it first) goes
\* on to read the id of that game.
C16_EnsureActivityRaceRecovers ==
    /\ [](\A g1, g2 \in games : g1.name = g2.name => g1 = g2)
    /\ [][\A t \in TaskIds :
            (/\ tasks[t].pc = "add_game"
             /\ is_game_in_db(DB, tasks[t].input[2][1].name)
             /\ register_session_step(t))
            => tasks'[t].pc = "get_game_id"]_vars

\* C17: every entry and every session refers to a stored game, in every
\* state, those between the statements of resetall, hardreset and the
\* presence handlers included.
C17_ReferentialIntegrity ==
    \A r \in game_entries \cup game_sessions : r.game_id \in GameIds(DB)

\* The DELETE FROM games of a hardreset has been refused: a presence
\* handler had stored a row between the statements of its resetall, and the
\* row and the game it refers to are stored.
C17_Witness ==
    /\ last.op = "hardreset"
    /\ last.out = "panic"
    /\ game_entries \cup game_sessions # {}

\* C18: a presence signal whose first activity is not Playing writes no
\* table: sessions, entries, games and the id sequence stay as they are.
C18_OtherActivityChangesNothing ==
    [][\A u \in Users : \A sig \in Signals(u, Times) :
          (/\ Len(sig) > 0
           /\ sig[1].kind # "Playing"
           /\ presence_update(u, sig))
          => UNCHANGED StoreVars]_vars

\* The last handler met a first activity that is not Playing while its
\* user had a session, which is still stored.
C18_Witness ==
    /\ last.op = "presence_update"
    /\ last.out = "ignored"
    /\ UserSessions(DB, last.input[1]) # {}

\* C20: no two session rows and no two entry rows have the same (user_id,
\* game_id), and "playing X" for a user who has a session of X, whatever
\* its start, fails and leaves game_sessions as it is.
C20_OneRowPerPair ==
    /\ [](/\ \A x, y \in game_sessions :
               (x.user_id = y.user_id /\ x.game_id = y.game_id) => x = y
          /\ \A x, y \in game_entries :
               (x.user_id = y.user_id /\ x.game_id = y.game_id) => x = y)
    /\ [][\A u \in Users : \A row \in UserSessions(DB, u) :
            \A g \in games, T \in Times :
              (g.game_id = row.game_id /\ presence_update(u, Playing(g.name, T)))
              => game_sessions' = game_sessions /\ last'.out = "conflict"]_vars

\* The last handler was a "playing X since T" that met a stored session of
\* X of its user with another start, and that session is stored as it was.
C20_Witness ==
    /\ last.op = "presence_update"
    /\ last.out = "conflict"
    /\ \E row \in game_sessions, g \in games, T \in Times :
          /\ g.game_id = row.game_id
          /\ T # row.starttime
          /\ last.input = <<row.user_id, Playing(g.name, T)>>

====
